---- MODULE Spec2Model ----
(***************************************************************************)
(* Game session of the dart counter (src/src/App.tsx) together with the    *)
(* score display of src/src/components/ScoreBoard.tsx, the entry controls  *)
(* of src/src/components/GameControls.tsx and the callback registration    *)
(* and the classifier of src/src/services/dartDetection.ts.                *)
(*                                                                         *)
(* The React state object gameState is one variable holding a record; the  *)
(* functional updaters passed to setGameState are operators from the       *)
(* previous record to the next one.  Array indices are 0-based in the      *)
(* source and sequences are 1-based here, so players[i] of the source is   *)
(* players[i + 1] of the model.                                            *)
(***************************************************************************)
EXTENDS Integers, Sequences, FiniteSets, Bags, TLC

VARIABLES
    gameState,          \* App.tsx useState<GameState>
    showPlayerSetup,    \* App.tsx useState(false): the Player Setup modal is open
    autoDetectEnabled,  \* App.tsx useState(false): the Auto-Detect checkbox
    isInitialized,      \* DartDetectionService.isInitialized
    pendingInit,        \* bag of initModel() calls awaiting initialize(), each
                        \* the values its callback closure captured
    detectionCallback,  \* DartDetectionService.detectionCallback: NoCallback or
                        \* the values the registered closure captured
    lastRegistered,     \* history: the callback handed to setDetectionCallback
                        \* last, NoCallback before the first registration
    now,                \* the value Date.now() returned last (milliseconds)
    dartboardCenter,    \* DartDetectionService.dartboardCenter: NoCenter or a point
    dartboardRadius,    \* DartDetectionService.dartboardRadius, 0 at construction
    impact,             \* the point (dartX, dartY) handed to calculateScore
    scoreResult,        \* what calculateScore returned for it, NoResult before
    manualScore,        \* GameControls useState(20): the Advanced Entry score
    manualMultiplier,   \* GameControls useState(1): the Advanced Entry multiplier
    lastScore,          \* GameControls useState(null): the number clicked last
    previousFrame,      \* DartDetectionService.previousFrame: NoFrame or a frame
    canvas,             \* the frame CameraFeed has drawn into the canvas it
                        \* handed to the service last, NoFrame before
    autoResult,         \* what autoDetectDartboard returned last, NotAsked
                        \* before the first call
    updateQueue,        \* React's queue of updaters passed to setGameState and
                        \* not yet applied by a render
    lastOp              \* history: the handler that ran last, with its arguments

detectVars == <<autoDetectEnabled, isInitialized, pendingInit, detectionCallback,
                lastRegistered>>
\* what the handlers of the session leave alone when they act on gameState
\* directly
serviceVars == <<dartboardCenter, dartboardRadius, impact, scoreResult>>
controlVars == <<manualScore, manualMultiplier, lastScore>>
frameVars == <<previousFrame, canvas, autoResult>>
otherVars == <<updateQueue, serviceVars, controlVars, frameVars>>
vars == <<gameState, showPlayerSetup, autoDetectEnabled, isInitialized,
          pendingInit, detectionCallback, lastRegistered, now, dartboardCenter,
          dartboardRadius, impact, scoreResult, manualScore, manualMultiplier,
          lastScore, previousFrame, canvas, autoResult, updateQueue, lastOp>>

(***************************************************************************)
(* Bounds of the model.                                                    *)
(***************************************************************************)
\* roster sizes offered are 1..MaxPlayers (the source offers 1..6)
MaxPlayers == 4
\* throws registered in one game, over all players
MaxThrows == 6
\* players of the roster carrying a typed (non-default) name
MaxRenamed == 1
\* initModel() calls awaiting the model load at one time
MaxPending == 2
\* updaters queued between two renders
MaxQueue == 3
\* milliseconds the clock advances in one session
MaxNow == 2
\* pixel coordinates of an impact are 0..MaxCoord on both axes
MaxCoord == 210
\* throws registered in one game when every entry control is modelled
MaxEntries == 1
\* throws of one countdown game that are followed
MaxCountdownThrows == 10

\* (score, multiplier) pairs handed to registerThrow
ThrowInputs == { <<20, 3>>, <<5, 1>> }
\* names typed into the Player Setup modal
NameInputs == { "Ann" }

GameModes == { "301", "501", "cricket", "practice" }

\* numbers of the number grid that are clicked
GridInputs == { 20 }
\* numbers typed into the score field of the Advanced Entry (the field
\* shows min 0 and max 20 and takes any number typed)
TypedScores == { 0, 21 }
\* impacts found by the frame comparison (the mean of the changed pixels,
\* taken at whole pixels here), on the board calibrated at (105, 105) with
\* radius 100: one for every branch of calculateScore
ImpactInputs == { <<105, 105>>, <<115, 105>>, <<135, 105>>, <<165, 105>>,
                  <<185, 105>>, <<205, 105>>, <<0, 0>> }

\* (centerX, centerY, radius) triples handed to calibrateDartboard
CalibrationInputs == { <<105, 105, 100>>, <<60, 50, 50>> }

(***************************************************************************)
(* Helpers                                                                 *)
(***************************************************************************)
RECURSIVE SumLens(_)
SumLens(ps) ==
    IF ps = << >> THEN 0 ELSE Len(Head(ps).throws) + SumLens(Tail(ps))

TotalThrows(gs) == SumLens(gs.players)

\* `${i + 1}` of a 0-based index i
IndexLabel(i) == ToString(i + 1)

\* `Player ${i + 1}` of a 0-based index i
DefaultName(i) == "Player " \o IndexLabel(i)

\* the player synthesized for slot i (0-based) by updatePlayerCount
DefaultPlayer(i) ==
    [ id |-> IndexLabel(i),
      name |-> DefaultName(i),
      score |-> 0,
      throws |-> << >> ]

\* the object literal given to useState<GameState>
InitialGameState ==
    [ players |-> << [ id |-> "1", name |-> "Player 1", score |-> 0, throws |-> << >> ],
                     [ id |-> "2", name |-> "Player 2", score |-> 0, throws |-> << >> ] >>,
      currentPlayerIndex |-> 0,
      gameMode |-> "501",
      isActive |-> FALSE ]

NoOp == [ op |-> "none", a |-> 0, b |-> 0 ]
Op(name) == [ op |-> name, a |-> 0, b |-> 0 ]

\* DartDetectionService.detectionCallback = null
NoCallback == [ set |-> FALSE, autoDetectEnabled |-> FALSE, isActive |-> FALSE ]
\* the arrow function of the effect, with the values it closes over
Closure(auto, active) == [ set |-> TRUE, autoDetectEnabled |-> auto, isActive |-> active ]

Renamed(gs) == { k \in 1..Len(gs.players) : gs.players[k].name # DefaultName(k - 1) }

(***************************************************************************)
(* The updaters of App.tsx                                                 *)
(***************************************************************************)
\* the Throw object built by registerThrow; idNow and tsNow are the two
\* successive Date.now() readings
NewThrow(score, multiplier, idNow, tsNow) ==
    [ id |-> ToString(idNow),
      score |-> score,
      multiplier |-> multiplier,
      timestamp |-> tsNow ]

\* variant: the rotation forgets to wrap around the roster
NextPlayerIndexNoWrap(prev, throwsCount) ==
    IF throwsCount % 3 = 0
    THEN prev.currentPlayerIndex + 1
    ELSE prev.currentPlayerIndex

\* variant: the turn passes on after every throw
NextPlayerIndexEveryThrow(prev, throwsCount) ==
    (prev.currentPlayerIndex + 1) % Len(prev.players)

\* the rotation decision of registerThrow
NextPlayerIndex(prev, throwsCount) ==
    IF throwsCount % 3 = 0
    THEN (prev.currentPlayerIndex + 1) % Len(prev.players)
    ELSE prev.currentPlayerIndex

\* variant: the new throw is put in front of the history
UpdatedPlayersPrepend(prev, newThrow) ==
    LET currentPlayer == prev.players[prev.currentPlayerIndex + 1]
    IN  [ prev.players EXCEPT ![prev.currentPlayerIndex + 1] =
            [ currentPlayer EXCEPT
                !.throws = << newThrow >> \o currentPlayer.throws,
                !.score = currentPlayer.score + (newThrow.score * newThrow.multiplier) ] ]

\* the players array with the throw appended to the current player
UpdatedPlayers(prev, newThrow) ==
    LET currentPlayer == prev.players[prev.currentPlayerIndex + 1]
    IN  [ prev.players EXCEPT ![prev.currentPlayerIndex + 1] =
            [ currentPlayer EXCEPT
                !.throws = Append(currentPlayer.throws, newThrow),
                !.score = currentPlayer.score + (newThrow.score * newThrow.multiplier) ] ]

\* variant: the isActive check is missing
registerThrowUnguarded(prev, score, multiplier, idNow, tsNow) ==
    LET updatedPlayers == UpdatedPlayers(prev, NewThrow(score, multiplier, idNow, tsNow))
        throwsCount == Len(updatedPlayers[prev.currentPlayerIndex + 1].throws)
    IN  [ prev EXCEPT
            !.players = updatedPlayers,
            !.currentPlayerIndex = NextPlayerIndex(prev, throwsCount) ]

registerThrow(prev, score, multiplier, idNow, tsNow) ==
    IF ~prev.isActive THEN prev
    ELSE
      LET updatedPlayers == UpdatedPlayers(prev, NewThrow(score, multiplier, idNow, tsNow))
          throwsCount == Len(updatedPlayers[prev.currentPlayerIndex + 1].throws)
      IN  [ prev EXCEPT
              !.players = updatedPlayers,
              !.currentPlayerIndex = NextPlayerIndex(prev, throwsCount) ]

\* variant: the renamed player is rebuilt from the name alone
updatePlayerNameRebuilds(prev, index, name) ==
    [ prev EXCEPT !.players[index + 1] =
        [ id |-> prev.players[index + 1].id, name |-> name,
          score |-> 0, throws |-> << >> ] ]

updatePlayerName(prev, index, name) ==
    [ prev EXCEPT !.players[index + 1].name = name ]

\* variant: every slot is filled with a fresh default player
updatePlayerCountFresh(prev, count) ==
    [ prev EXCEPT !.players = [ k \in 1..count |-> DefaultPlayer(k - 1) ] ]

updatePlayerCount(prev, count) ==
    [ prev EXCEPT !.players =
        [ k \in 1..count |->
            IF k <= Len(prev.players) THEN prev.players[k] ELSE DefaultPlayer(k - 1) ] ]

\* variant: the turn is not handed back to the first player
startGameKeepsIndex(prev) ==
    [ prev EXCEPT
        !.isActive = TRUE,
        !.players = [ k \in 1..Len(prev.players) |->
                        [ prev.players[k] EXCEPT !.score = 0, !.throws = << >> ] ] ]

\* variant: the throws are cleared and the stored score is kept
startGameKeepsScore(prev) ==
    [ prev EXCEPT
        !.isActive = TRUE,
        !.players = [ k \in 1..Len(prev.players) |->
                        [ prev.players[k] EXCEPT !.throws = << >> ] ],
        !.currentPlayerIndex = 0 ]

startGame(prev) ==
    [ prev EXCEPT
        !.isActive = TRUE,
        !.players = [ k \in 1..Len(prev.players) |->
                        [ prev.players[k] EXCEPT !.score = 0, !.throws = << >> ] ],
        !.currentPlayerIndex = 0 ]

\* variant: ending a game also clears the histories
endGameClears(prev) ==
    [ prev EXCEPT
        !.isActive = FALSE,
        !.players = [ k \in 1..Len(prev.players) |->
                        [ prev.players[k] EXCEPT !.score = 0, !.throws = << >> ] ] ]

endGame(prev) == [ prev EXCEPT !.isActive = FALSE ]

changeGameMode(prev, mode) == [ prev EXCEPT !.gameMode = mode ]

(***************************************************************************)
(* The score display of ScoreBoard.tsx                                     *)
(***************************************************************************)
\* parseInt on the mode strings: the digits of '301' and '501', NaN otherwise
NaN == "NaN"
parseInt(str) ==
    IF str = "301" THEN 301 ELSE IF str = "501" THEN 501 ELSE NaN

\* player.throws.reduce((sum, t) => sum + (t.score * t.multiplier), 0)
RECURSIVE ReduceThrows(_, _)
ReduceThrows(throws, sum) ==
    IF throws = << >> THEN sum
    ELSE ReduceThrows(Tail(throws), sum + (Head(throws).score * Head(throws).multiplier))

\* player.throws.slice(-3)
getLastThreeThrows(player) ==
    LET n == Len(player.throws)
    IN  IF n <= 3 THEN player.throws ELSE SubSeq(player.throws, n - 2, n)

\* variant: the remaining score is taken over the displayed last three throws
getPlayerScoreLastThree(player, gameMode) ==
    IF gameMode = "301" \/ gameMode = "501"
    THEN parseInt(gameMode) - ReduceThrows(getLastThreeThrows(player), 0)
    ELSE player.score

getPlayerScore(player, gameMode) ==
    IF gameMode = "301" \/ gameMode = "501"
    THEN LET startingScore == parseInt(gameMode)
             totalThrown == ReduceThrows(player.throws, 0)
         IN  startingScore - totalThrown
    ELSE player.score

(***************************************************************************)
(* The effect of App.tsx that registers the detection callback.  It runs   *)
(* after a render in which autoDetectEnabled or gameState.isActive         *)
(* changed.  initModel() awaits initialize(): once the service is          *)
(* initialized the await resumes in the same task, before any other event; *)
(* before that it resumes when its own model load ends.                    *)
(***************************************************************************)
EffectReady == isInitialized \/ BagCardinality(pendingInit) < MaxPending

\* variant: a callback already registered is kept
setDetectionCallbackKeepsFirst(current, callback) ==
    IF current.set THEN current ELSE callback

\* this.detectionCallback = callback: the next value of the field
setDetectionCallback(current, callback) == callback

RunEffect(auto, active) ==
    IF isInitialized
    THEN /\ detectionCallback' =
                setDetectionCallback(detectionCallback, Closure(auto, active))
         /\ lastRegistered' = Closure(auto, active)
         /\ UNCHANGED <<isInitialized, pendingInit>>
    ELSE /\ pendingInit' = pendingInit (+) SetToBag({ Closure(auto, active) })
         /\ UNCHANGED <<isInitialized, detectionCallback, lastRegistered>>

(***************************************************************************)
(* The classifier of src/src/services/dartDetection.ts (calculateScore).   *)
(* Coordinates and the radius are integers here, so every comparison of    *)
(* the source is made exactly: a comparison of distance / radius with a    *)
(* literal of two decimals is a comparison of squares, and the 18-degree   *)
(* sector of an angle is found by comparing a slope with the tangents of   *)
(* 18, 36, 54 and 72 degrees.                                              *)
(***************************************************************************)
\* dartboardCenter = null
NoCenter == [ set |-> FALSE, x |-> 0, y |-> 0 ]
Center(x, y) == [ set |-> TRUE, x |-> x, y |-> y ]
\* no call of calculateScore has returned yet
NoResult == [ set |-> FALSE, score |-> 0, multiplier |-> 0 ]
Result(score, multiplier) == [ set |-> TRUE, score |-> score, multiplier |-> multiplier ]

\* the fields as the constructor leaves them
ServiceConstructed ==
    /\ dartboardCenter = NoCenter
    /\ dartboardRadius = 0
    /\ impact = [ x |-> 0, y |-> 0 ]
    /\ scoreResult = NoResult

\* the test of detectDartImpact and calculateScore: both fields are truthy
Calibrated == dartboardCenter.set /\ dartboardRadius # 0

\* tan(18 j degrees) * TanScale for j = 1..4, rounded; no slope of two
\* integers below 2000 is within 1 / TanScale of one of them
TanScale == 1000000
Tan18 == << 324920, 726543, 1376382, 3077684 >>

\* floor(a / 18) for a = Math.atan2(dy, dx) in degrees, 360 added when
\* negative: the quarter turn the direction lies in, then the sectors passed
\* inside it (u / v is the tangent of the angle into the quarter turn)
Atan2Sector(dy, dx) ==
    LET quarter == IF dx > 0 /\ dy >= 0 THEN 0
                   ELSE IF dx <= 0 /\ dy > 0 THEN 1
                   ELSE IF dx < 0 /\ dy <= 0 THEN 2
                   ELSE 3
        u == CASE quarter = 0 -> dy [] quarter = 1 -> 0 - dx
               [] quarter = 2 -> 0 - dy [] OTHER -> dx
        v == CASE quarter = 0 -> dx [] quarter = 1 -> dy
               [] quarter = 2 -> 0 - dx [] OTHER -> 0 - dy
    IN  IF dx = 0 /\ dy = 0 THEN 0
        ELSE 5 * quarter
               + Cardinality({ j \in 1..4 : u * TanScale >= v * Tan18[j] })

\* variant: the quarter turn that puts 0 degrees at the top is left out
SegmentIndexFromEast(dx, dy) == Atan2Sector(dy, dx)

\* angle = (angle + 90) % 360; segmentIndex = Math.floor(angle / 18):
\* 90 degrees are 5 sectors
SegmentIndex(dx, dy) == (Atan2Sector(dy, dx) + 5) % 20

segments == << 20, 1, 18, 4, 13, 6, 10, 15, 2, 17, 3, 19, 7, 16, 8, 11, 14, 9, 12, 5 >>

\* sqrt(dx*dx + dy*dy) / radius <= hundredths / 100: the quotient by a
\* radius below 0 is 0 or less, below every literal of calculateScore
DistanceLE(dx, dy, radius, hundredths) ==
    IF radius < 0 THEN TRUE
    ELSE 10000 * (dx * dx + dy * dy) <= hundredths * hundredths * radius * radius

\* variant: an impact outside the board is returned with multiplier 0
calculateScoreMissTimesZero(dartX, dartY, center, radius) ==
    IF ~center.set \/ radius = 0 THEN Result(0, 1)
    ELSE
      LET dx == dartX - center.x
          dy == dartY - center.y
          segmentScore == segments[(SegmentIndex(dx, dy) % 20) + 1]
          LE(h) == DistanceLE(dx, dy, radius, h)
      IN  IF LE(6) THEN Result(50, 1)
          ELSE IF LE(12) THEN Result(25, 1)
          ELSE IF ~LE(95) /\ LE(105) THEN Result(segmentScore, 2)
          ELSE IF ~LE(55) /\ LE(65) THEN Result(segmentScore, 3)
          ELSE IF LE(95) THEN Result(segmentScore, 1)
          ELSE Result(0, 0)

calculateScore(dartX, dartY, center, radius) ==
    IF ~center.set \/ radius = 0 THEN Result(0, 1)
    ELSE
      LET dx == dartX - center.x
          dy == dartY - center.y
          segmentIndex == SegmentIndex(dx, dy)
          segmentScore == segments[(segmentIndex % 20) + 1]
          LE(h) == DistanceLE(dx, dy, radius, h)
      IN  IF LE(6) THEN Result(50, 1)
          ELSE IF LE(12) THEN Result(25, 1)
          ELSE IF ~LE(95) /\ LE(105) THEN Result(segmentScore, 2)
          ELSE IF ~LE(55) /\ LE(65) THEN Result(segmentScore, 3)
          ELSE IF LE(95) THEN Result(segmentScore, 1)
          ELSE Result(0, 1)

(***************************************************************************)
(* The frames of the camera.  A frame is what getImageData returns for the *)
(* canvas: width * height pixels of three colour channels (the alpha       *)
(* channel is never read).  The frames of the model are a ground colour    *)
(* with at most one ring and at most one square block painted on it.       *)
(***************************************************************************)
\* the channels (r, g, b) of the colours
RGB == [ black |-> << 0, 0, 0 >>, white |-> << 255, 255, 255 >>,
         red |-> << 200, 0, 0 >>, green |-> << 0, 200, 0 >>,
         gray |-> << 128, 128, 128 >>, dim |-> << 138, 138, 138 >>,
         lit |-> << 139, 138, 138 >> ]

\* previousFrame = null, canvasRef.current = null
NoFrame == [ set |-> FALSE, width |-> 0, height |-> 0, ground |-> "gray",
             ringX |-> 0, ringY |-> 0, inner |-> 0, outer |-> 0,
             ringColour |-> "gray",
             blockX |-> 0, blockY |-> 0, side |-> 0, blockColour |-> "gray" ]
Plain(width, height, ground) ==
    [ NoFrame EXCEPT !.set = TRUE, !.width = width, !.height = height,
                     !.ground = ground, !.ringColour = ground,
                     !.blockColour = ground ]
\* a ring of the colour between the radii inner and outer around (x, y)
WithRing(frame, x, y, inner, outer, colour) ==
    [ frame EXCEPT !.ringX = x, !.ringY = y, !.inner = inner, !.outer = outer,
                   !.ringColour = colour ]
\* a square of the colour with its top left corner at (x, y)
WithBlock(frame, x, y, side, colour) ==
    [ frame EXCEPT !.blockX = x, !.blockY = y, !.side = side,
                   !.blockColour = colour ]

\* data[4 * (y * width + x)], the two bytes after it included
Pixel(frame, x, y) ==
    LET dx == x - frame.ringX
        dy == y - frame.ringY
        d2 == dx * dx + dy * dy
    IN  IF /\ frame.side > 0
           /\ x >= frame.blockX /\ x < frame.blockX + frame.side
           /\ y >= frame.blockY /\ y < frame.blockY + frame.side
        THEN RGB[frame.blockColour]
        ELSE IF /\ frame.outer > 0
                /\ d2 >= frame.inner * frame.inner
                /\ d2 <= frame.outer * frame.outer
        THEN RGB[frame.ringColour]
        ELSE RGB[frame.ground]

Min(a, b) == IF a < b THEN a ELSE b
Abs(n) == IF n < 0 THEN 0 - n ELSE n
Maximum(S) == CHOOSE m \in S : \A n \in S : n <= m
Minimum(S) == CHOOSE m \in S : \A n \in S : m <= n
RECURSIVE GCD(_, _)
GCD(a, b) == IF b = 0 THEN a ELSE GCD(b, a % b)

(***************************************************************************)
(* autoDetectDartboard.  Lengths are kept in hundredths of a pixel and the *)
(* cosines of the 36 sampling angles scaled by TrigScale; for a frame      *)
(* whose sides are even and whose smaller side is 10 modulo 20 no sample   *)
(* lies within 1 / 1000 of a half pixel, so the rounding of every sample   *)
(* is the one Math.round makes.                                            *)
(***************************************************************************)
TrigScale == 100000
\* Math.cos(k * 10 degrees) * TrigScale for k = 0..35, rounded
Cos10 == << 100000, 98481, 93969, 86603, 76604, 64279, 50000, 34202, 17365,
            0, -17365, -34202, -50000, -64279, -76604, -86603, -93969, -98481,
            -100000, -98481, -93969, -86603, -76604, -64279, -50000, -34202,
            -17365, 0, 17365, 34202, 50000, 64279, 76604, 86603, 93969, 98481 >>
CosAt(k) == Cos10[(k % 36) + 1]
\* Math.sin(a) = Math.cos(a - 90 degrees)
SinAt(k) == CosAt(k + 27)

\* Math.round(c + r * t) for c and r in hundredths and t scaled by
\* TrigScale: Math.round is floor(v + 0.5)
RoundSample(c, r, t) == (c * TrigScale + r * t + 50 * TrigScale) \div (100 * TrigScale)
\* Math.round of a length in hundredths
RoundHundredths(v) == (v + 50) \div 100

\* colorScore[y * width + x]: 1 for a dark, light, red or green pixel
colorScore(frame, x, y) ==
    LET p == Pixel(frame, x, y)
        r == p[1]
        g == p[2]
        b == p[3]
        isDark == r < 80 /\ g < 80 /\ b < 80
        isLight == r > 200 /\ g > 200 /\ b > 200
        isRed == r > 150 /\ g < 100 /\ b < 100
        isGreen == r < 100 /\ g > 120 /\ b < 100
    IN  IF isDark \/ isLight \/ isRed \/ isGreen THEN 1 ELSE 0

InFrame(frame, x, y) == x >= 0 /\ x < frame.width /\ y >= 0 /\ y < frame.height

\* the sample of angle 10 k degrees on the circle of radius r around (cx, cy)
\* is inside the frame and has a dartboard colour
SampleScores(frame, cx, cy, r, k) ==
    LET x == RoundSample(cx, r, CosAt(k))
        y == RoundSample(cy, r, SinAt(k))
    IN  InFrame(frame, x, y) /\ colorScore(frame, x, y) = 1
SampleInFrame(frame, cx, cy, r, k) ==
    InFrame(frame, RoundSample(cx, r, CosAt(k)), RoundSample(cy, r, SinAt(k)))

\* the inner loop of the centre search: the score of one candidate centre
CentreScore(frame, cx, cy) ==
    LET testRadius == 25 * Min(frame.width, frame.height)
    IN  Cardinality({ k \in 0..35 : SampleScores(frame, cx, cy, testRadius, k) })

\* for (c = n * 0.2; c < n * 0.8; c += sampleStep), in hundredths
CentreSteps(n) == { 20 * n + 2000 * j : j \in 0..((60 * n - 1) \div 2000) }

\* the centre search: the first candidate, rows before columns, whose score
\* is the largest, the centre of the frame when no candidate scores
BestCentre(frame) ==
    LET candidates == CentreSteps(frame.width) \X CentreSteps(frame.height)
        score == [ c \in candidates |-> CentreScore(frame, c[1], c[2]) ]
        bestScore == Maximum({ score[c] : c \in candidates })
        Before(c, d) == c[2] < d[2] \/ (c[2] = d[2] /\ c[1] <= d[1])
        first == CHOOSE c \in candidates :
                    /\ score[c] = bestScore
                    /\ \A d \in candidates : score[d] = bestScore => Before(c, d)
    IN  IF bestScore = 0
        THEN [ x |-> 50 * frame.width, y |-> 50 * frame.height, score |-> 0 ]
        ELSE [ x |-> first[1], y |-> first[2], score |-> bestScore ]

\* the inner loop of the radius refinement: the samples on the circle of
\* radius r and, for those inside the frame, on the circle of radius 0.8 r
RadiusScore(frame, cx, cy, r) ==
    LET innerR == (8 * r) \div 10
    IN  Cardinality({ k \in 0..35 : SampleScores(frame, cx, cy, r, k) })
        + Cardinality({ k \in 0..35 : /\ SampleInFrame(frame, cx, cy, r, k)
                                      /\ SampleScores(frame, cx, cy, innerR, k) })

minRadius(frame) == 15 * Min(frame.width, frame.height)
maxRadius(frame) == 45 * Min(frame.width, frame.height)
\* for (r = minRadius; r <= maxRadius; r += 3), in hundredths
RadiusSteps(frame) ==
    { minRadius(frame) + 300 * j :
        j \in 0..((maxRadius(frame) - minRadius(frame)) \div 300) }

\* the radius refinement: the smallest radius whose score is the largest,
\* 0 when no radius scores
BestRadius(frame, cx, cy) ==
    LET score == [ r \in RadiusSteps(frame) |-> RadiusScore(frame, cx, cy, r) ]
        maxRadiusScore == Maximum({ score[r] : r \in RadiusSteps(frame) })
    IN  IF maxRadiusScore = 0 THEN 0
        ELSE Minimum({ r \in RadiusSteps(frame) : score[r] = maxRadiusScore })

\* autoDetectDartboard has not been called, has returned null, has returned
\* a calibration
NotAsked == [ asked |-> FALSE, found |-> FALSE, centerX |-> 0, centerY |-> 0,
              radius |-> 0 ]
Null == [ asked |-> TRUE, found |-> FALSE, centerX |-> 0, centerY |-> 0,
          radius |-> 0 ]
Detected(centerX, centerY, radius) ==
    [ asked |-> TRUE, found |-> TRUE, centerX |-> centerX, centerY |-> centerY,
      radius |-> radius ]

\* the centre of the frame with the estimated radius
Fallback(frame) ==
    Detected((frame.width + 1) \div 2, (frame.height + 1) \div 2,
             (2 * Min(frame.width, frame.height) + 3) \div 6)

\* variant: a detection is accepted from the smallest radius on
ReasonableDetectionFromMinRadius(frame, bestScore, bestRadius) ==
    bestScore > 5 /\ bestRadius >= minRadius(frame)

\* bestScore > 5 && bestRadius > minRadius
ReasonableDetection(frame, bestScore, bestRadius) ==
    bestScore > 5 /\ bestRadius > minRadius(frame)

\* variant: no reasonable detection is answered with null
autoDetectDartboardNullWhenWeak(hasContext, frame) ==
    IF ~hasContext THEN Null
    ELSE
      LET best == BestCentre(frame)
          bestRadius == BestRadius(frame, best.x, best.y)
      IN  IF ReasonableDetection(frame, best.score, bestRadius)
          THEN Detected(RoundHundredths(best.x), RoundHundredths(best.y),
                        RoundHundredths(bestRadius))
          ELSE Null

\* hasContext: canvas.getContext('2d') is not null
autoDetectDartboard(hasContext, frame) ==
    IF ~hasContext THEN Null
    ELSE
      LET best == BestCentre(frame)
          bestRadius == BestRadius(frame, best.x, best.y)
      IN  IF ReasonableDetection(frame, best.score, bestRadius)
          THEN Detected(RoundHundredths(best.x), RoundHundredths(best.y),
                        RoundHundredths(bestRadius))
          ELSE Fallback(frame)

\* the two assignments of calibrateDartboard
calibrateDartboard(center, radius, centerX, centerY, newRadius) ==
    [ center |-> Center(centerX, centerY), radius |-> newRadius ]

\* the two assignments drawDartboard makes before it draws
drawDartboard(center, radius, centerX, centerY, newRadius) ==
    [ center |-> Center(centerX, centerY), radius |-> newRadius ]

(***************************************************************************)
(* detectDartImpact and detectFrameChanges                                 *)
(***************************************************************************)
\* variant: the previous frame is kept
resetFrameComparisonKeeps == previousFrame

\* this.previousFrame = null
resetFrameComparison == NoFrame

\* rDiff + gDiff + bDiff
totalDiff(previous, current) ==
    Abs(current[1] - previous[1]) + Abs(current[2] - previous[2])
      + Abs(current[3] - previous[3])

\* the pixels whose totalDiff is above the threshold, found by walking the
\* data of the previous frame; the frames of a camera have one size
detectFrameChanges(previous, current) ==
    { p \in (0..(previous.width - 1)) \X (0..(previous.height - 1)) :
        totalDiff(Pixel(previous, p[1], p[2]), Pixel(current, p[1], p[2])) > 30 }

\* Math.sqrt(dx * dx + dy * dy) <= this.dartboardRadius
OnDartboard(p, center, radius) ==
    LET dx == p[1] - center.x
        dy == p[2] - center.y
    IN  radius >= 0 /\ dx * dx + dy * dy <= radius * radius

\* the sum of the coordinate i of the points of a set, column by column
SumCoordinate(S, i, limit) ==
    LET RECURSIVE Upto(_)
        Upto(v) == IF v < 0 THEN 0
                   ELSE v * Cardinality({ p \in S : p[i] = v }) + Upto(v - 1)
    IN  Upto(limit)

\* what one call of detectDartImpact on a calibrated service finds: the
\* changes on the dartboard, and for more than 50 and fewer than 1000 of
\* them the result of calculateScore for their mean position.  The mean is
\* sumX / n, sumY / n; calculateScore depends on the directions and on the
\* ratios of lengths only, so the centre, the radius and the mean are all
\* multiplied by the denominator of the mean.
FindImpact(previous, current, center, radius) ==
    LET changes == detectFrameChanges(previous, current)
        dartboardChanges == { p \in changes : OnDartboard(p, center, radius) }
        n == Cardinality(dartboardChanges)
        sumX == SumCoordinate(dartboardChanges, 1, current.width - 1)
        sumY == SumCoordinate(dartboardChanges, 2, current.height - 1)
        den == n \div GCD(n, GCD(sumX, sumY))
    IN  IF previous.set /\ n > 50 /\ n < 1000
        THEN [ found |-> TRUE, changed |-> n,
               x |-> sumX \div n, y |-> sumY \div n,
               result |-> calculateScore((sumX * den) \div n, (sumY * den) \div n,
                                         Center(den * center.x, den * center.y),
                                         den * radius) ]
        ELSE [ found |-> FALSE, changed |-> IF previous.set THEN n ELSE 0,
               x |-> 0, y |-> 0, result |-> NoResult ]

(***************************************************************************)
(* The state of GameControls.tsx                                           *)
(***************************************************************************)
\* lastScore = null
NoLastScore == [ set |-> FALSE, score |-> 0 ]
LastScore(score) == [ set |-> TRUE, score |-> score ]

\* no frame has reached the service
NoFrameSeen ==
    /\ previousFrame = NoFrame
    /\ canvas = NoFrame
    /\ autoResult = NotAsked

\* the three useState initial values
ControlsMounted ==
    /\ manualScore = 20
    /\ manualMultiplier = 1
    /\ lastScore = NoLastScore

(***************************************************************************)
(* Initial states                                                          *)
(***************************************************************************)
\* the page has mounted: the mount effect has called initModel()
InitMount ==
    /\ gameState = InitialGameState
    /\ showPlayerSetup = FALSE
    /\ autoDetectEnabled = FALSE
    /\ isInitialized = FALSE
    /\ pendingInit = SetToBag({ Closure(FALSE, FALSE) })
    /\ detectionCallback = NoCallback
    /\ lastRegistered = NoCallback
    /\ now = 0
    /\ ServiceConstructed
    /\ NoFrameSeen
    /\ ControlsMounted
    /\ updateQueue = << >>
    /\ lastOp = NoOp

\* the page has mounted and the model load of the mount effect has ended
Init ==
    /\ gameState = InitialGameState
    /\ showPlayerSetup = FALSE
    /\ autoDetectEnabled = FALSE
    /\ isInitialized = TRUE
    /\ pendingInit = EmptyBag
    /\ detectionCallback = Closure(FALSE, FALSE)
    /\ lastRegistered = Closure(FALSE, FALSE)
    /\ now = 0
    /\ ServiceConstructed
    /\ NoFrameSeen
    /\ ControlsMounted
    /\ updateQueue = << >>
    /\ lastOp = NoOp

(***************************************************************************)
(* The handlers as actions                                                 *)
(***************************************************************************)
\* GameControls: the Start Game button is rendered only while not active
StartGame ==
    /\ ~gameState.isActive
    /\ EffectReady
    /\ gameState' = startGame(gameState)
    /\ showPlayerSetup' = FALSE
    /\ RunEffect(autoDetectEnabled, TRUE)
    /\ previousFrame' = resetFrameComparison
    /\ lastOp' = Op("startGame")
    /\ UNCHANGED <<autoDetectEnabled, now, updateQueue, serviceVars, controlVars,
                   canvas, autoResult>>

\* GameControls: the End Game button is rendered only while active
EndGame ==
    /\ gameState.isActive
    /\ EffectReady
    /\ gameState' = endGame(gameState)
    /\ RunEffect(autoDetectEnabled, FALSE)
    /\ lastOp' = Op("endGame")
    /\ UNCHANGED <<showPlayerSetup, autoDetectEnabled, now, otherVars>>

\* GameControls: every entry button is disabled while not active
ManualThrow ==
    /\ gameState.isActive
    /\ TotalThrows(gameState) < MaxThrows
    /\ \E in \in ThrowInputs :
         /\ gameState' = registerThrow(gameState, in[1], in[2], now, now)
         /\ lastOp' = [ op |-> "registerThrow", a |-> in[1], b |-> in[2] ]
    /\ UNCHANGED <<showPlayerSetup, detectVars, now, otherVars>>

\* variant: the mode buttons are never disabled
ModeButtonNeverDisabled == FALSE

\* GameControls: the mode buttons carry disabled={isActive}
ModeButtonDisabled == gameState.isActive

ChangeGameMode ==
    /\ ~ModeButtonDisabled
    /\ \E mode \in GameModes :
         /\ gameState' = changeGameMode(gameState, mode)
         /\ lastOp' = Op("changeGameMode")
    /\ UNCHANGED <<showPlayerSetup, detectVars, now, otherVars>>

\* GameControls: the Setup Players button is rendered only while not active
OpenPlayerSetup ==
    /\ ~gameState.isActive
    /\ ~showPlayerSetup
    /\ showPlayerSetup' = TRUE
    /\ lastOp' = Op("openPlayerSetup")
    /\ UNCHANGED <<gameState, detectVars, now, otherVars>>

\* the Done button and the overlay of the modal
ClosePlayerSetup ==
    /\ showPlayerSetup
    /\ showPlayerSetup' = FALSE
    /\ lastOp' = Op("closePlayerSetup")
    /\ UNCHANGED <<gameState, detectVars, now, otherVars>>

\* the count buttons live in the modal
UpdatePlayerCount ==
    /\ showPlayerSetup
    /\ \E count \in 1..MaxPlayers :
         /\ gameState' = updatePlayerCount(gameState, count)
         /\ lastOp' = [ op |-> "updatePlayerCount", a |-> count,
                        b |-> Len(gameState.players) ]
    /\ UNCHANGED <<showPlayerSetup, detectVars, now, otherVars>>

\* one text input per player lives in the modal
UpdatePlayerName ==
    /\ showPlayerSetup
    /\ \E index \in 0..(Len(gameState.players) - 1), name \in NameInputs :
         /\ Cardinality(Renamed(gameState) \cup { index + 1 }) <= MaxRenamed
         /\ gameState' = updatePlayerName(gameState, index, name)
         /\ lastOp' = Op("updatePlayerName")
    /\ UNCHANGED <<showPlayerSetup, detectVars, now, otherVars>>

\* the Auto-Detect checkbox of the header
ToggleAutoDetect ==
    /\ EffectReady
    /\ autoDetectEnabled' = ~autoDetectEnabled
    /\ RunEffect(~autoDetectEnabled, gameState.isActive)
    /\ lastOp' = Op("setAutoDetectEnabled")
    /\ UNCHANGED <<gameState, showPlayerSetup, now, otherVars>>

\* a model load ends: initialize() returns to the initModel() awaiting it,
\* which registers its callback
InitComplete ==
    /\ \E c \in BagToSet(pendingInit) :
         /\ pendingInit' = pendingInit (-) SetToBag({ c })
         /\ detectionCallback' = setDetectionCallback(detectionCallback, c)
         /\ lastRegistered' = c
    /\ isInitialized' = TRUE
    /\ lastOp' = Op("setDetectionCallback")
    /\ UNCHANGED <<gameState, showPlayerSetup, autoDetectEnabled, now, otherVars>>

\* a model load fails: initialize() throws and initModel() only logs
InitFails ==
    /\ \E c \in BagToSet(pendingInit) :
         pendingInit' = pendingInit (-) SetToBag({ c })
    /\ lastOp' = Op("initFailed")
    /\ UNCHANGED <<gameState, showPlayerSetup, autoDetectEnabled, isInitialized,
                   detectionCallback, lastRegistered, now, otherVars>>

\* detectDartImpact finds an impact scoring more than 0 and invokes the
\* registered callback, which forwards to registerThrow when the values it
\* captured allow.  The frames and the calibration decide whether an impact
\* is found; they are the environment here, so any positive result may be
\* reported at any time (the frame loops of CameraFeed are never cancelled
\* and keep running after a game has ended).
DetectDartImpact ==
    /\ detectionCallback.set
    /\ gameState.isActive => TotalThrows(gameState) < MaxThrows
    /\ \E in \in { t \in ThrowInputs : t[1] > 0 } :
         IF detectionCallback.autoDetectEnabled /\ detectionCallback.isActive
         THEN /\ gameState' = registerThrow(gameState, in[1], in[2], now, now)
              /\ lastOp' = [ op |-> "registerThrow", a |-> in[1], b |-> in[2] ]
         ELSE /\ gameState' = gameState
              /\ lastOp' = Op("detectionDropped")
    /\ UNCHANGED <<showPlayerSetup, detectVars, now, otherVars>>

(***************************************************************************)
(* Calls of registerThrow that overlap.  registerThrow hands an updater to *)
(* setGameState; React queues the updaters of the calls made before the    *)
(* next render and applies them in call order, each to the state the one   *)
(* before it returned.  The Throw object is built inside the updater.      *)
(***************************************************************************)
\* variant: every call computes the next state from the gameState of the
\* render it was made in, and the last call's state is the one kept
ProcessUpdateQueueStale(prev, queue, dateNow) ==
    IF queue = << >> THEN prev
    ELSE LET last == queue[Len(queue)]
         IN  registerThrow(prev, last.score, last.multiplier, dateNow, dateNow)

RECURSIVE ProcessUpdateQueue(_, _, _)
ProcessUpdateQueue(prev, queue, dateNow) ==
    IF queue = << >> THEN prev
    ELSE ProcessUpdateQueue(
            registerThrow(prev, Head(queue).score, Head(queue).multiplier,
                          dateNow, dateNow),
            Tail(queue), dateNow)

QueueHasRoom ==
    /\ Len(updateQueue) < MaxQueue
    /\ TotalThrows(gameState) + Len(updateQueue) < MaxThrows

\* an entry button is pressed before the calls made so far are rendered
ManualCall ==
    /\ gameState.isActive
    /\ QueueHasRoom
    /\ \E in \in ThrowInputs :
         /\ updateQueue' = Append(updateQueue, [ score |-> in[1], multiplier |-> in[2] ])
         /\ lastOp' = [ op |-> "manualCall", a |-> in[1], b |-> in[2] ]
    /\ UNCHANGED <<gameState, showPlayerSetup, detectVars, now, serviceVars,
                   controlVars, frameVars>>

\* the detection callback fires before the calls made so far are rendered
DetectionCall ==
    /\ detectionCallback.set
    /\ detectionCallback.autoDetectEnabled /\ detectionCallback.isActive
    /\ QueueHasRoom
    /\ \E in \in { t \in ThrowInputs : t[1] > 0 } :
         /\ updateQueue' = Append(updateQueue, [ score |-> in[1], multiplier |-> in[2] ])
         /\ lastOp' = [ op |-> "detectionCall", a |-> in[1], b |-> in[2] ]
    /\ UNCHANGED <<gameState, showPlayerSetup, detectVars, now, serviceVars,
                   controlVars, frameVars>>

\* React renders: the queued updaters are applied in call order
Render ==
    /\ updateQueue # << >>
    /\ gameState' = ProcessUpdateQueue(gameState, updateQueue, now)
    /\ updateQueue' = << >>
    /\ lastOp' = [ op |-> "render", a |-> Len(updateQueue), b |-> 0 ]
    /\ UNCHANGED <<showPlayerSetup, detectVars, now, serviceVars,
                   controlVars, frameVars>>

\* the Start Game and End Game clicks and the checkbox, handled once the
\* calls before them are rendered
StartGameRendered == updateQueue = << >> /\ StartGame
EndGameRendered == updateQueue = << >> /\ EndGame
ToggleAutoDetectRendered == updateQueue = << >> /\ ToggleAutoDetect

(***************************************************************************)
(* The clock.  Date.now() has millisecond resolution: two calls return the *)
(* same value unless a millisecond boundary lies between them.             *)
(***************************************************************************)
\* a millisecond boundary passes between two handlers
Tick ==
    /\ now < MaxNow
    /\ now' = now + 1
    /\ lastOp' = Op("tick")
    /\ UNCHANGED <<gameState, showPlayerSetup, detectVars, otherVars>>

\* a millisecond boundary passes between the Date.now() of the id and the
\* Date.now() of the timestamp of one registerThrow
ManualThrowAcrossTick ==
    /\ gameState.isActive
    /\ TotalThrows(gameState) < MaxThrows
    /\ now < MaxNow
    /\ now' = now + 1
    /\ \E in \in ThrowInputs :
         /\ gameState' = registerThrow(gameState, in[1], in[2], now, now + 1)
         /\ lastOp' = [ op |-> "registerThrow", a |-> in[1], b |-> in[2] ]
    /\ UNCHANGED <<showPlayerSetup, detectVars, otherVars>>

(***************************************************************************)
(* The classifier applied to one impact on one calibration                 *)
(***************************************************************************)
\* a service calibrated or not, and an impact anywhere in the frame
InitScore ==
    /\ gameState = InitialGameState
    /\ showPlayerSetup = FALSE
    /\ autoDetectEnabled = FALSE
    /\ isInitialized = TRUE
    /\ pendingInit = EmptyBag
    /\ detectionCallback = Closure(FALSE, FALSE)
    /\ lastRegistered = Closure(FALSE, FALSE)
    /\ now = 0
    /\ \/ dartboardCenter = NoCenter /\ dartboardRadius = 0
       \/ \E c \in CalibrationInputs :
             dartboardCenter = Center(c[1], c[2]) /\ dartboardRadius = c[3]
    /\ impact \in [ x : 0..MaxCoord, y : 0..MaxCoord ]
    /\ scoreResult = NoResult
    /\ NoFrameSeen
    /\ ControlsMounted
    /\ updateQueue = << >>
    /\ lastOp = NoOp

CalculateScore ==
    /\ ~scoreResult.set
    /\ scoreResult' = calculateScore(impact.x, impact.y, dartboardCenter, dartboardRadius)
    /\ lastOp' = Op("calculateScore")
    /\ UNCHANGED <<gameState, showPlayerSetup, detectVars, now, dartboardCenter,
                   dartboardRadius, impact, updateQueue, controlVars, frameVars>>

(***************************************************************************)
(* The entry controls of GameControls.tsx one by one, and the detection    *)
(* path with the classifier in it.  Every button that registers a throw    *)
(* carries disabled={!isActive}; the two fields of the Advanced Entry are  *)
(* never disabled.                                                         *)
(***************************************************************************)
\* the page with the model loaded and the board calibrated
InitEntry ==
    /\ gameState = InitialGameState
    /\ showPlayerSetup = FALSE
    /\ autoDetectEnabled = FALSE
    /\ isInitialized = TRUE
    /\ pendingInit = EmptyBag
    /\ detectionCallback = Closure(FALSE, FALSE)
    /\ lastRegistered = Closure(FALSE, FALSE)
    /\ now = 0
    /\ dartboardCenter = Center(105, 105)
    /\ dartboardRadius = 100
    /\ impact = [ x |-> 0, y |-> 0 ]
    /\ scoreResult = NoResult
    /\ NoFrameSeen
    /\ ControlsMounted
    /\ updateQueue = << >>
    /\ lastOp = NoOp

EntryHasRoom == TotalThrows(gameState) < MaxEntries

\* a button of the number grid
HandleScoreClick ==
    /\ gameState.isActive
    /\ EntryHasRoom
    /\ \E score \in GridInputs :
         /\ lastScore' = LastScore(score)
         /\ gameState' = registerThrow(gameState, score, 1, now, now)
         /\ lastOp' = [ op |-> "handleScoreClick", a |-> score, b |-> 1 ]
    /\ UNCHANGED <<showPlayerSetup, detectVars, now, updateQueue, serviceVars,
                   manualScore, manualMultiplier, frameVars>>

\* the Double and Triple buttons, disabled while lastScore is null
HandleMultiplier ==
    /\ gameState.isActive
    /\ lastScore.set
    /\ EntryHasRoom
    /\ \E multiplier \in { 2, 3 } :
         /\ gameState' = registerThrow(gameState, lastScore.score, multiplier, now, now)
         /\ lastOp' = [ op |-> "handleMultiplier", a |-> lastScore.score,
                        b |-> multiplier ]
    /\ UNCHANGED <<showPlayerSetup, detectVars, now, otherVars>>

\* the Bull 25, Bullseye 50 and Miss (0) buttons
SpecialScore ==
    /\ gameState.isActive
    /\ EntryHasRoom
    /\ \E score \in { 25, 50, 0 } :
         /\ gameState' = registerThrow(gameState, score, 1, now, now)
         /\ lastOp' = [ op |-> "specialScore", a |-> score, b |-> 1 ]
    /\ UNCHANGED <<showPlayerSetup, detectVars, now, otherVars>>

\* onChange of the score field: setManualScore(Number(e.target.value))
SetManualScore ==
    /\ \E typed \in TypedScores \cup { 20 } :
         /\ typed # manualScore
         /\ manualScore' = typed
    /\ lastOp' = Op("setManualScore")
    /\ UNCHANGED <<gameState, showPlayerSetup, detectVars, now, updateQueue,
                   serviceVars, manualMultiplier, lastScore,
                   frameVars>>

\* onChange of the multiplier select, which offers 1, 2 and 3
SetManualMultiplier ==
    /\ \E option \in { 1, 2, 3 } :
         /\ option # manualMultiplier
         /\ manualMultiplier' = option
    /\ lastOp' = Op("setManualMultiplier")
    /\ UNCHANGED <<gameState, showPlayerSetup, detectVars, now, updateQueue,
                   serviceVars, manualScore, lastScore,
                   frameVars>>

\* the Register Custom button
HandleManualThrow ==
    /\ gameState.isActive
    /\ EntryHasRoom
    /\ gameState' = registerThrow(gameState, manualScore, manualMultiplier, now, now)
    /\ lastOp' = [ op |-> "handleManualThrow", a |-> manualScore,
                   b |-> manualMultiplier ]
    /\ UNCHANGED <<showPlayerSetup, detectVars, now, otherVars>>

\* detectDartImpact has found an impact: it is classified, and a result
\* scoring more than 0 goes to the registered callback, which forwards it
\* to registerThrow when the values it captured allow
DetectAndScore ==
    /\ Calibrated
    /\ gameState.isActive => EntryHasRoom
    /\ \E p \in ImpactInputs :
         LET result == calculateScore(p[1], p[2], dartboardCenter, dartboardRadius)
         IN  /\ impact' = [ x |-> p[1], y |-> p[2] ]
             /\ scoreResult' = result
             /\ IF /\ detectionCallback.set
                   /\ result.score > 0
                   /\ detectionCallback.autoDetectEnabled
                   /\ detectionCallback.isActive
                THEN /\ gameState' = registerThrow(gameState, result.score,
                                                   result.multiplier, now, now)
                     /\ lastOp' = [ op |-> "detectDartImpact", a |-> result.score,
                                    b |-> result.multiplier ]
                ELSE /\ gameState' = gameState
                     /\ lastOp' = Op("detectionDropped")
    /\ UNCHANGED <<showPlayerSetup, detectVars, now, updateQueue, dartboardCenter,
                   dartboardRadius, controlVars, frameVars>>

(***************************************************************************)
(* Calibration: the Calibrate and Auto-Calibrate buttons of the            *)
(* calibration panel, the overlay and the classifier.  canvasRef.current   *)
(* is the canvas of CameraFeed, which hands it over only after             *)
(* getContext('2d') has returned a context, so the same call returns that  *)
(* context again inside the service.                                       *)
(***************************************************************************)
\* (centerX, centerY, radius) as typed into the three number fields: the
\* fields take any number, and an emptied field is Number('') = 0
TypedCalibrations == { << 45, 35, 30 >>, << 45, 35, 0 >>, << 45, 35, -30 >> }
\* (centerX, centerY, radius) drawDartboard is called with
OverlayInputs == { << 45, 35, 20 >> }
\* the points calculateScore is asked about
ScoreInputs == { << 45, 35 >>, << 45, 13 >>, << 70, 35 >>, << 0, 0 >> }
\* what the camera shows when Auto-Calibrate is clicked: frames of one
\* colour, a board whose ring is wide, a board whose ring is thin
SceneFrames ==
    { Plain(90, 70, c) : c \in { "black", "white", "gray" } }
    \cup { Plain(70, 90, "black"),
           WithRing(Plain(90, 70, "gray"), 45, 35, 10, 24, "black"),
           WithRing(Plain(90, 70, "gray"), 45, 35, 18, 20, "black") }

HandleCalibrate ==
    /\ \E c \in TypedCalibrations :
         LET set == calibrateDartboard(dartboardCenter, dartboardRadius,
                                       c[1], c[2], c[3])
         IN  /\ dartboardCenter' = set.center
             /\ dartboardRadius' = set.radius
             /\ lastOp' = [ op |-> "calibrateDartboard", a |-> c[3], b |-> 0 ]
    /\ UNCHANGED <<gameState, showPlayerSetup, detectVars, now, impact,
                   scoreResult, updateQueue, controlVars, frameVars>>

\* the result is applied with calibrateDartboard as (centerX, centerY,
\* radius), the three numbers autoDetectDartboard returns
HandleAutoCalibrate ==
    /\ \E frame \in SceneFrames :
         \E result \in { autoDetectDartboard(TRUE, frame) } :
           LET set == calibrateDartboard(dartboardCenter, dartboardRadius,
                                         result.centerX, result.centerY,
                                         result.radius)
           IN  /\ canvas' = frame
               /\ autoResult' = result
               /\ dartboardCenter' = IF result.found THEN set.center
                                     ELSE dartboardCenter
               /\ dartboardRadius' = IF result.found THEN set.radius
                                     ELSE dartboardRadius
    /\ lastOp' = Op("autoDetectDartboard")
    /\ UNCHANGED <<gameState, showPlayerSetup, detectVars, now, impact,
                   scoreResult, updateQueue, controlVars, previousFrame>>

DrawDartboard ==
    /\ \E c \in OverlayInputs :
         LET set == drawDartboard(dartboardCenter, dartboardRadius,
                                  c[1], c[2], c[3])
         IN  /\ dartboardCenter' = set.center
             /\ dartboardRadius' = set.radius
    /\ lastOp' = Op("drawDartboard")
    /\ UNCHANGED <<gameState, showPlayerSetup, detectVars, now, impact,
                   scoreResult, updateQueue, controlVars, frameVars>>

ScorePoint ==
    /\ \E p \in ScoreInputs :
         /\ impact' = [ x |-> p[1], y |-> p[2] ]
         /\ scoreResult' = calculateScore(p[1], p[2], dartboardCenter,
                                          dartboardRadius)
    /\ lastOp' = Op("calculateScore")
    /\ UNCHANGED <<gameState, showPlayerSetup, detectVars, now, dartboardCenter,
                   dartboardRadius, updateQueue, controlVars, frameVars>>

(***************************************************************************)
(* Frame comparison: detectDartImpact on the frames of a camera that looks *)
(* at a gray wall, on a service that is calibrated or not.                 *)
(***************************************************************************)
\* the calibrations of the service the frames are handed to
CameraCalibrations == { << 22, 22, 19 >>, << 22, 22, 10 >> }
\* the wall; one pixel, a block of 81 pixels and the whole frame changed by
\* more than the threshold; a block changed by the threshold exactly; a
\* block changed outside both calibrated circles
CameraFrames ==
    LET wall == Plain(45, 45, "gray")
    IN  { wall,
          WithBlock(wall, 22, 22, 1, "lit"),
          WithBlock(wall, 18, 18, 9, "lit"),
          WithBlock(wall, 19, 18, 9, "lit"),
          WithBlock(wall, 18, 18, 9, "dim"),
          WithBlock(wall, 0, 0, 9, "lit"),
          WithBlock(wall, 0, 0, 45, "white") }

InitFrames ==
    /\ gameState = InitialGameState
    /\ showPlayerSetup = FALSE
    /\ autoDetectEnabled = FALSE
    /\ isInitialized = TRUE
    /\ pendingInit = EmptyBag
    /\ detectionCallback = Closure(FALSE, FALSE)
    /\ lastRegistered = Closure(FALSE, FALSE)
    /\ now = 0
    /\ \/ dartboardCenter = NoCenter /\ dartboardRadius = 0
       \/ \E c \in CameraCalibrations :
             dartboardCenter = Center(c[1], c[2]) /\ dartboardRadius = c[3]
    /\ impact = [ x |-> 0, y |-> 0 ]
    /\ scoreResult = NoResult
    /\ NoFrameSeen
    /\ ControlsMounted
    /\ updateQueue = << >>
    /\ lastOp = NoOp

\* one call of detectDartImpact(canvas).  lastOp tells how it ended:
\* "notCalibrated" and "noImpact" for the returns before the callback,
\* "impactReported" with the pair handed to the callback
DetectDartImpactOnFrame ==
    /\ gameState.isActive => EntryHasRoom
    /\ \E frame \in CameraFrames :
         /\ canvas' = frame
         /\ IF ~Calibrated
            THEN /\ lastOp' = Op("notCalibrated")
                 /\ UNCHANGED <<previousFrame, impact, scoreResult, gameState>>
            ELSE \E found \in { FindImpact(previousFrame, frame, dartboardCenter,
                                            dartboardRadius) } :
                   LET called == /\ found.found
                                 /\ detectionCallback.set
                                 /\ found.result.score > 0
                   IN  /\ previousFrame' = frame
                       /\ impact' = IF found.found
                                    THEN [ x |-> found.x, y |-> found.y ]
                                    ELSE impact
                       /\ scoreResult' = IF found.found THEN found.result
                                         ELSE scoreResult
                       /\ lastOp' = IF called
                                    THEN [ op |-> "impactReported",
                                           a |-> found.result.score,
                                           b |-> found.result.multiplier ]
                                    ELSE Op("noImpact")
                       /\ gameState' =
                            IF /\ called
                               /\ detectionCallback.autoDetectEnabled
                               /\ detectionCallback.isActive
                            THEN registerThrow(gameState, found.result.score,
                                               found.result.multiplier, now, now)
                            ELSE gameState
    /\ UNCHANGED <<showPlayerSetup, detectVars, now, updateQueue, dartboardCenter,
                   dartboardRadius, controlVars, autoResult>>

\* the session driven from the controls, model loaded
Next ==
    \/ StartGame
    \/ EndGame
    \/ ManualThrow
    \/ ChangeGameMode
    \/ OpenPlayerSetup
    \/ ClosePlayerSetup
    \/ UpdatePlayerCount
    \/ UpdatePlayerName

Spec == Init /\ [][Next]_vars

\* the session with automatic detection, from the mount of the page
NextDetect ==
    \/ StartGame
    \/ EndGame
    \/ ManualThrow
    \/ ToggleAutoDetect
    \/ InitComplete
    \/ InitFails
    \/ DetectDartImpact

SpecDetect == InitMount /\ [][NextDetect]_vars

\* the session with calls of registerThrow that overlap, model loaded
NextBatch ==
    \/ StartGameRendered
    \/ EndGameRendered
    \/ ToggleAutoDetectRendered
    \/ ManualCall
    \/ DetectionCall
    \/ Render

SpecBatch == Init /\ [][NextBatch]_vars

\* the session under a running clock, model loaded
NextClock ==
    \/ StartGame
    \/ EndGame
    \/ ManualThrow
    \/ ManualThrowAcrossTick
    \/ Tick

SpecClock == Init /\ [][NextClock]_vars

\* the classifier on every impact of the frame
NextScore == CalculateScore

SpecScore == InitScore /\ [][NextScore]_vars

\* the session with every entry control and the detection path
NextEntry ==
    \/ StartGame
    \/ EndGame
    \/ ToggleAutoDetect
    \/ HandleScoreClick
    \/ HandleMultiplier
    \/ SpecialScore
    \/ SetManualScore
    \/ SetManualMultiplier
    \/ HandleManualThrow
    \/ DetectAndScore

SpecEntry == InitEntry /\ [][NextEntry]_vars

\* the calibration panel, the overlay and the classifier
NextCalibration ==
    \/ HandleCalibrate
    \/ HandleAutoCalibrate
    \/ DrawDartboard
    \/ ScorePoint

SpecCalibration == Init /\ [][NextCalibration]_vars

\* the frames of the camera handed to detectDartImpact during a session
NextFrames ==
    \/ StartGame
    \/ EndGame
    \/ ToggleAutoDetect
    \/ DetectDartImpactOnFrame

SpecFrames == InitFrames /\ [][NextFrames]_vars

(***************************************************************************)
(* A countdown game played to the end.  The roster has one or two players  *)
(* and the mode is 301, both chosen in the controls before the game is     *)
(* started; 301 is five treble 20s and a single 1.                         *)
(***************************************************************************)
CountdownRosters == { 1, 2 }
CountdownInputs == { <<20, 3>>, <<1, 1>> }

\* the page after Setup Players and the 301 button, model loaded
InitCountdown ==
    /\ \E count \in CountdownRosters :
         gameState = changeGameMode(updatePlayerCount(InitialGameState, count), "301")
    /\ showPlayerSetup = FALSE
    /\ autoDetectEnabled = FALSE
    /\ isInitialized = TRUE
    /\ pendingInit = EmptyBag
    /\ detectionCallback = Closure(FALSE, FALSE)
    /\ lastRegistered = Closure(FALSE, FALSE)
    /\ now = 0
    /\ ServiceConstructed
    /\ NoFrameSeen
    /\ ControlsMounted
    /\ updateQueue = << >>
    /\ lastOp = NoOp

\* GameControls: an entry button clicked during the countdown game
CountdownThrow ==
    /\ gameState.isActive
    /\ TotalThrows(gameState) < MaxCountdownThrows
    /\ \E in \in CountdownInputs :
         /\ gameState' = registerThrow(gameState, in[1], in[2], now, now)
         /\ lastOp' = [ op |-> "registerThrow", a |-> in[1], b |-> in[2] ]
    /\ UNCHANGED <<showPlayerSetup, detectVars, now, otherVars>>

NextCountdown ==
    \/ StartGame
    \/ CountdownThrow
    \/ EndGame

SpecCountdown == InitCountdown /\ [][NextCountdown]_vars

TypeOK ==
    /\ gameState.isActive \in BOOLEAN
    /\ gameState.gameMode \in GameModes
    /\ showPlayerSetup \in BOOLEAN
    /\ now \in Nat
    /\ Len(updateQueue) <= MaxQueue

(***************************************************************************)
(* Vocabulary of the properties                                            *)
(***************************************************************************)
players == gameState.players
NumPlayers == Len(gameState.players)

\* the step is a call of registerThrow / the call that led here
RegisterThrowStep == lastOp'.op = "registerThrow" /\ vars' # vars
StepOf(name) == lastOp'.op = name /\ vars' # vars

\* sum of score*multiplier over a throw list, counted from the last throw down
RECURSIVE SigmaThrows(_, _)
SigmaThrows(throws, n) ==
    IF n = 0 THEN 0
    ELSE SigmaThrows(throws, n - 1) + throws[n].score * throws[n].multiplier

Total(throws) == SigmaThrows(throws, Len(throws))

T20 == [ score |-> 20, multiplier |-> 3 ]
ScoreAndMultiplier(t) == [ score |-> t.score, multiplier |-> t.multiplier ]

\* the names the setup dialog gives to added players, by position
DocumentedNames ==
    << "Player 1", "Player 2", "Player 3", "Player 4", "Player 5", "Player 6" >>

(***************************************************************************)
(* C1: registerThrow called while isActive is false leaves the whole game  *)
(* session as it was: players with their throw lists and scores,           *)
(* currentPlayerIndex, gameMode and isActive, for every score and          *)
(* multiplier.                                                             *)
(***************************************************************************)
C1_InactiveThrowIsNoOp ==
    [][ (lastOp'.op = "registerThrow" /\ ~gameState.isActive)
            => gameState' = gameState ]_vars

\* a call has been made after a game that left a history and a later player
\* to throw
C1_Witness ==
    /\ lastOp.op = "registerThrow"
    /\ ~gameState.isActive
    /\ gameState.currentPlayerIndex = 1
    /\ Len(players[1].throws) = 3

(***************************************************************************)
(* C2: while the session is active, registerThrow moves currentPlayerIndex *)
(* to (current+1) mod players.length exactly when the current player's     *)
(* throw count after the append is a multiple of 3 and otherwise keeps it; *)
(* with 2 players from index 0 the index is 0 after the 1st and 2nd call   *)
(* and 1 after the 3rd; with 1 player it is always 0.                      *)
(***************************************************************************)
C2_RotationRule ==
    LET i == gameState.currentPlayerIndex
        countAfter == Len(gameState'.players[i + 1].throws)
    IN  gameState'.currentPlayerIndex =
            IF countAfter % 3 = 0 THEN (i + 1) % NumPlayers ELSE i

C2_TwoPlayers ==
    (gameState.isActive /\ NumPlayers = 2 /\ TotalThrows(gameState) <= 3)
        => gameState.currentPlayerIndex =
              (IF TotalThrows(gameState) = 3 THEN 1 ELSE 0)

C2_OnePlayer ==
    (gameState.isActive /\ NumPlayers = 1) => gameState.currentPlayerIndex = 0

C2_TurnRotation ==
    [][ /\ (RegisterThrowStep /\ gameState.isActive) => C2_RotationRule
        /\ C2_TwoPlayers'
        /\ C2_OnePlayer' ]_vars

\* the second player's third throw has handed the turn back to the first
C2_Witness ==
    /\ lastOp.op = "registerThrow"
    /\ gameState.isActive
    /\ NumPlayers = 2
    /\ Len(players[1].throws) = 3
    /\ Len(players[2].throws) = 3
    /\ gameState.currentPlayerIndex = 0

(***************************************************************************)
(* C3: while the session is active, one registerThrow(score, multiplier)   *)
(* appends exactly one Throw with that score and multiplier to the end of  *)
(* the current player's throw list and leaves every other player, the      *)
(* roster length, gameMode and isActive unchanged.                         *)
(***************************************************************************)
C3_AppendsOne ==
    LET cur == gameState.currentPlayerIndex + 1
        before == gameState.players[cur].throws
        after == gameState'.players[cur].throws
    IN  /\ Len(gameState'.players) = Len(gameState.players)
        /\ Len(after) = Len(before) + 1
        /\ SubSeq(after, 1, Len(before)) = before
        /\ after[Len(after)].score = lastOp'.a
        /\ after[Len(after)].multiplier = lastOp'.b
        /\ \A k \in 1..Len(gameState.players) :
              k # cur => gameState'.players[k] = gameState.players[k]
        /\ gameState'.gameMode = gameState.gameMode
        /\ gameState'.isActive = gameState.isActive

C3_ThrowFrame ==
    [][ (RegisterThrowStep /\ gameState.isActive) => C3_AppendsOne ]_vars

\* a throw of the second player has been appended after a different one,
\* next to a first player with a history of their own
C3_Witness ==
    /\ lastOp = [ op |-> "registerThrow", a |-> 5, b |-> 1 ]
    /\ gameState.isActive
    /\ NumPlayers = 3
    /\ Len(players[1].throws) = 3
    /\ Len(players[2].throws) = 2
    /\ players[2].throws[1].score = 20

(***************************************************************************)
(* C4: in every reachable state currentPlayerIndex is in                   *)
(* [0, players.length) whenever players.length > 0, also after the roster  *)
(* is shrunk while idle after a game that ended on a later player.         *)
(***************************************************************************)
C4_IndexInRange ==
    NumPlayers > 0 => gameState.currentPlayerIndex \in 0..(NumPlayers - 1)

(***************************************************************************)
(* C5: start() makes the session active, sets every player's score to 0    *)
(* and throws to empty and currentPlayerIndex to 0, and leaves the roster  *)
(* length, the ids, the names and gameMode unchanged.                      *)
(***************************************************************************)
C5_StartEffect ==
    /\ gameState'.isActive
    /\ gameState'.currentPlayerIndex = 0
    /\ Len(gameState'.players) = Len(gameState.players)
    /\ \A k \in 1..Len(gameState.players) :
          /\ gameState'.players[k].score = 0
          /\ gameState'.players[k].throws = << >>
          /\ gameState'.players[k].id = gameState.players[k].id
          /\ gameState'.players[k].name = gameState.players[k].name
    /\ gameState'.gameMode = gameState.gameMode

C5_StartResets ==
    [][ StepOf("startGame") => C5_StartEffect ]_vars

\* a game has just been started on a renamed roster of three in another mode
C5_Witness ==
    /\ lastOp.op = "startGame"
    /\ gameState.isActive
    /\ NumPlayers = 3
    /\ players[2].name = "Ann"
    /\ gameState.gameMode = "cricket"

(***************************************************************************)
(* C6: end() makes the session idle and changes nothing else, and throws,  *)
(* scores, currentPlayerIndex, roster and gameMode stay as they were until *)
(* the next start() or roster resize.                                      *)
(***************************************************************************)
C6_EndOnlyDeactivates ==
    /\ ~gameState'.isActive
    /\ gameState'.players = gameState.players
    /\ gameState'.currentPlayerIndex = gameState.currentPlayerIndex
    /\ gameState'.gameMode = gameState.gameMode

Histories(gs) ==
    [ k \in 1..Len(gs.players) |->
        [ id |-> gs.players[k].id, score |-> gs.players[k].score,
          throws |-> gs.players[k].throws ] ]
Names(gs) == [ k \in 1..Len(gs.players) |-> gs.players[k].name ]

\* the session is idle after an end(): end() has just run, or a history is
\* on display (start() clears it and only end() leaves the session idle)
AfterEnd == ~gameState.isActive /\ (lastOp.op = "endGame" \/ TotalThrows(gameState) > 0)

\* the claim as stated: after end() nothing but start() or a resize changes
\* the players, the turn or the mode
C6_RetainedUntilStartOrResize ==
    [][ /\ StepOf("endGame") => C6_EndOnlyDeactivates
        /\ (AfterEnd /\ lastOp'.op \notin { "startGame", "updatePlayerCount" })
              => /\ gameState'.players = gameState.players
                 /\ gameState'.currentPlayerIndex = gameState.currentPlayerIndex
                 /\ gameState'.gameMode = gameState.gameMode ]_vars

\* amended: while idle a mode change and a rename act as well, the first on
\* gameMode alone and the second on one player's name alone
C6_RetainedWhileIdle ==
    [][ /\ StepOf("endGame") => C6_EndOnlyDeactivates
        /\ (~gameState.isActive /\ lastOp'.op \notin { "startGame", "updatePlayerCount" })
              => /\ Histories(gameState') = Histories(gameState)
                 /\ gameState'.currentPlayerIndex = gameState.currentPlayerIndex
                 /\ gameState'.isActive = gameState.isActive
                 /\ lastOp'.op # "updatePlayerName" => Names(gameState') = Names(gameState)
                 /\ lastOp'.op = "updatePlayerName"
                        => Cardinality({ k \in 1..NumPlayers :
                               Names(gameState')[k] # Names(gameState)[k] }) <= 1
                 /\ lastOp'.op # "changeGameMode"
                        => gameState'.gameMode = gameState.gameMode ]_vars

\* a game with a history has been ended on the second player
C6_Witness ==
    /\ lastOp.op = "endGame"
    /\ ~gameState.isActive
    /\ gameState.currentPlayerIndex = 1
    /\ Len(players[1].throws) = 3
    /\ Len(players[2].throws) = 1

(***************************************************************************)
(* C7: gameMode changes only while the session is idle: it is the same in  *)
(* all states of one in-progress period, and a mode change asked for while *)
(* isActive is true has no effect.                                         *)
(***************************************************************************)
C7_ModeFixedWhileActive ==
    [][ gameState.isActive => gameState'.gameMode = gameState.gameMode ]_vars

\* a game is under way in a mode chosen before it started
C7_Witness ==
    /\ gameState.isActive
    /\ gameState.gameMode = "301"
    /\ TotalThrows(gameState) >= 4

(***************************************************************************)
(* C8: in mode 301 or 501 the displayed remaining score of a player is the *)
(* starting value minus the sum of score*multiplier over the player's      *)
(* whole throw history; there is no bust rule, so it may be negative;      *)
(* 501 with (20,3),(20,3),(20,3) shows 321.                                *)
(***************************************************************************)
C8_Remaining ==
    /\ \A k \in 1..NumPlayers :
          /\ gameState.gameMode = "301"
                => getPlayerScore(players[k], gameState.gameMode)
                      = 301 - Total(players[k].throws)
          /\ gameState.gameMode = "501"
                => getPlayerScore(players[k], gameState.gameMode)
                      = 501 - Total(players[k].throws)
          /\ ( /\ gameState.gameMode = "501"
               /\ Len(players[k].throws) = 3
               /\ \A j \in 1..3 : ScoreAndMultiplier(players[k].throws[j]) = T20 )
                => getPlayerScore(players[k], gameState.gameMode) = 321

\* six triple 20s in a 301 game: the display has gone below zero
C8_Witness ==
    /\ gameState.gameMode = "301"
    /\ \E k \in 1..NumPlayers :
          /\ Len(players[k].throws) = 6
          /\ getPlayerScore(players[k], gameState.gameMode) = 0 - 59

(***************************************************************************)
(* C9: in every reachable state each player's stored score equals the sum  *)
(* of score*multiplier over that player's current throw list, so the       *)
(* cricket/practice display equals the accumulated total.                  *)
(***************************************************************************)
C9_ScoreIsTotal ==
    \A k \in 1..NumPlayers :
        /\ players[k].score = Total(players[k].throws)
        /\ gameState.gameMode \in { "cricket", "practice" }
              => getPlayerScore(players[k], gameState.gameMode)
                    = Total(players[k].throws)

\* a cricket game in which the first player has thrown 60 and 5
C9_Witness ==
    /\ gameState.gameMode = "cricket"
    /\ gameState.isActive
    /\ Len(players[1].throws) = 2
    /\ players[1].score = 65

(***************************************************************************)
(* C10: resizing the roster to n players keeps every existing player at an *)
(* index below min(old, n) unchanged, creates for each added index i a     *)
(* player named 'Player i+1' with score 0 and no throws, and drops the     *)
(* players at index >= n.                                                  *)
(***************************************************************************)
C10_ResizeEffect ==
    LET old == Len(gameState.players)
        n == lastOp'.a
    IN  /\ lastOp'.b = old
        /\ Len(gameState'.players) = n
        /\ \A k \in 1..n :
              IF k <= old
              THEN gameState'.players[k] = gameState.players[k]
              ELSE /\ gameState'.players[k].name = DocumentedNames[k]
                   /\ gameState'.players[k].score = 0
                   /\ gameState'.players[k].throws = << >>

C10_RosterResize ==
    [][ StepOf("updatePlayerCount") => C10_ResizeEffect ]_vars

\* a renamed player with a history has been kept and two default players
\* added behind the first two
C10_Witness ==
    /\ lastOp = [ op |-> "updatePlayerCount", a |-> 4, b |-> 2 ]
    /\ NumPlayers = 4
    /\ players[1].name = "Ann"
    /\ Len(players[1].throws) = 3
    /\ players[3].name = "Player 3"
    /\ players[4].name = "Player 4"

(***************************************************************************)
(* C11: calls of registerThrow that overlap (the detection callback firing *)
(* during manual entry, or several calls made before a render) act as if   *)
(* made one after the other: N calls made while the session is active      *)
(* append exactly N throws, in call order, none lost or duplicated, and    *)
(* every rotation decision counts the throws of all earlier calls, so the  *)
(* g-th throw of the game (from 0) is throw ThrowSlot(g) of player         *)
(* ThrowOwner(g) and the turn is with ThrowOwner of the number of throws.  *)
(***************************************************************************)
ThrowOwner(g) == (g \div 3) % NumPlayers
ThrowSlot(g) == 3 * (g \div (3 * NumPlayers)) + (g % 3) + 1
ThrowsOwnedBy(k, total) == Cardinality({ g \in 0..(total - 1) : ThrowOwner(g) = k })

C11_BatchLanded ==
    LET before == TotalThrows(gameState)
        N == Len(updateQueue)
    IN  /\ TotalThrows(gameState') = before + N
        /\ \A k \in 1..NumPlayers :
              /\ Len(gameState'.players[k].throws) = ThrowsOwnedBy(k - 1, before + N)
              /\ SubSeq(gameState'.players[k].throws, 1, Len(players[k].throws))
                    = players[k].throws
        /\ \A j \in 1..N :
              LET t == gameState'.players[ThrowOwner(before + j - 1) + 1]
                           .throws[ThrowSlot(before + j - 1)]
              IN  ScoreAndMultiplier(t) = updateQueue[j]
        /\ gameState'.currentPlayerIndex = ThrowOwner(before + N)

C11_OverlappingCallsSerialize ==
    [][ (StepOf("render") /\ gameState.isActive) => C11_BatchLanded ]_vars

\* three calls, one of them from the detection callback, were rendered at
\* once: they finished the first player's turn and opened the second's
C11_Witness ==
    /\ lastOp = [ op |-> "render", a |-> 3, b |-> 0 ]
    /\ autoDetectEnabled
    /\ gameState.isActive
    /\ Len(players[1].throws) = 3
    /\ Len(players[2].throws) = 2
    /\ ScoreAndMultiplier(players[1].throws[3]) # ScoreAndMultiplier(players[2].throws[1])
    /\ gameState.currentPlayerIndex = 1

(***************************************************************************)
(* C12: a throw that arrives after end() is ignored, also when it comes    *)
(* through a detection callback created while the session was active       *)
(* (its closure holds isActive = true): from end() to the next start() no  *)
(* throw list grows and currentPlayerIndex does not move.                  *)
(***************************************************************************)
C12_NoThrowLandsWhileIdle ==
    [][ (~gameState.isActive /\ lastOp'.op # "startGame")
            => /\ gameState'.players = gameState.players
               /\ gameState'.currentPlayerIndex = gameState.currentPlayerIndex ]_vars

\* the callback registered for the running game came into force only after
\* end() and has forwarded an impact to registerThrow
C12_Witness ==
    /\ AfterEnd
    /\ lastOp.op = "registerThrow"
    /\ detectionCallback = Closure(TRUE, TRUE)
    /\ TotalThrows(gameState) = 2
    /\ gameState.currentPlayerIndex = 0

(***************************************************************************)
(* C13: throw ids are unique: in every reachable state no two Throws of    *)
(* the session, in one player's history or in two players' histories, have *)
(* the same id, also when both were registered in the same clock tick.     *)
(***************************************************************************)
ThrowPositions == { <<k, j>> \in (1..NumPlayers) \X (1..MaxThrows + 1) :
                        j <= Len(players[k].throws) }

C13_ThrowIdsUnique ==
    \A p \in ThrowPositions, q \in ThrowPositions :
        p # q => players[p[1]].throws[p[2]].id # players[q[1]].throws[q[2]].id

(***************************************************************************)
(* C14: within one game (from start() to the next start(), the roster not  *)
(* resized) every player's throw history is append-only: the history of an *)
(* earlier state is a prefix of the history of every later state, so no    *)
(* stored Throw changes its id, score, multiplier or timestamp; end(), a   *)
(* mode change and a rename do not touch it.                               *)
(***************************************************************************)
IsPrefix(s, t) == Len(s) <= Len(t) /\ SubSeq(t, 1, Len(s)) = s

C14_HistoryAppendOnly ==
    [][ lastOp'.op \notin { "startGame", "updatePlayerCount" }
            => /\ Len(gameState'.players) = Len(gameState.players)
               /\ \A k \in 1..NumPlayers :
                     IsPrefix(players[k].throws, gameState'.players[k].throws) ]_vars

\* the histories of a game have come through end(), a mode change and the
\* rename of the first player
C14_Witness ==
    /\ lastOp.op = "updatePlayerName"
    /\ AfterEnd
    /\ gameState.gameMode = "practice"
    /\ NumPlayers = 2
    /\ players[1].name = "Ann"
    /\ Len(players[1].throws) = 3
    /\ Len(players[2].throws) = 2
    /\ ScoreAndMultiplier(players[2].throws[2]) = T20

(***************************************************************************)
(* C15: at most one detection callback is registered at any time:          *)
(* setDetectionCallback replaces the previous callback, so the registered  *)
(* one is always the one handed over last; a processed frame pair invokes  *)
(* that callback only, at most once (at most one throw lands, and only     *)
(* when the values captured by the callback registered last allow it), and *)
(* a replaced callback is never invoked again.                             *)
(***************************************************************************)
C15_LatestIsRegistered == detectionCallback.set => detectionCallback = lastRegistered

C15_InvokesLatestOnce ==
    /\ TotalThrows(gameState') <= TotalThrows(gameState) + 1
    /\ gameState' # gameState
          => lastRegistered.autoDetectEnabled /\ lastRegistered.isActive
    /\ lastOp'.op = "detectionDropped"
          => ~(lastRegistered.autoDetectEnabled /\ lastRegistered.isActive)

C15_OneCallback ==
    [][ /\ C15_LatestIsRegistered'
        /\ DetectDartImpact => C15_InvokesLatestOnce ]_vars

\* the callback of the running game has replaced the one registered at
\* mount, and an impact went through it
C15_Witness ==
    /\ lastOp.op = "registerThrow"
    /\ gameState.isActive
    /\ autoDetectEnabled
    /\ detectionCallback = Closure(TRUE, TRUE)
    /\ lastRegistered = Closure(TRUE, TRUE)
    /\ pendingInit = EmptyBag
    /\ TotalThrows(gameState) = 4

(***************************************************************************)
(* Vocabulary of the classifier properties: the impact seen from the       *)
(* calibrated centre.  Normalized is the distance from the centre divided  *)
(* by the radius, compared here in hundredths and by squares.              *)
(***************************************************************************)
Classified == scoreResult.set /\ Calibrated
ImpactDx == impact.x - dartboardCenter.x
ImpactDy == impact.y - dartboardCenter.y
Distance2 == ImpactDx * ImpactDx + ImpactDy * ImpactDy
NormalizedLE(h) == 10000 * Distance2 <= h * h * dartboardRadius * dartboardRadius
NormalizedLT(h) == 10000 * Distance2 < h * h * dartboardRadius * dartboardRadius
NormalizedIn(lo, hi) == ~NormalizedLT(lo) /\ NormalizedLE(hi)

\* the radii that are single both by the literals of the source and by the
\* documented bands: 0.12 < normalized <= 0.55 or 0.65 < normalized < 0.95
SingleArea ==
    \/ ~NormalizedLE(12) /\ NormalizedLE(55)
    \/ ~NormalizedLE(65) /\ NormalizedLT(95)

(***************************************************************************)
(* C16: for every point and calibration the classifier returns {50,1}      *)
(* when normalized <= 0.04, {25,1} when 0.04 < normalized <= 0.07 and the  *)
(* miss {0,1} when normalized > 1.0.                                       *)
(***************************************************************************)
C16_BullAndMiss ==
    Classified =>
        /\ NormalizedLE(4) => scoreResult = Result(50, 1)
        /\ (~NormalizedLE(4) /\ NormalizedLE(7)) => scoreResult = Result(25, 1)
        /\ ~NormalizedLE(100) => scoreResult = Result(0, 1)

(***************************************************************************)
(* C17: for every point of the board outside the bull                      *)
(* (0.07 <= normalized <= 1.0) the multiplier is 3 exactly when normalized *)
(* is in [0.58, 0.65], 2 exactly when it is in [0.95, 1.0] and 1           *)
(* otherwise, both ends of a band included.                                *)
(***************************************************************************)
C17_RingBands ==
    (Classified /\ NormalizedIn(7, 100)) =>
        scoreResult.multiplier =
            IF NormalizedIn(58, 65) THEN 3
            ELSE IF NormalizedIn(95, 100) THEN 2
            ELSE 1

(***************************************************************************)
(* C18: the 20 angular sectors map onto 1..20 by a fixed bijection: at the *)
(* midpoints of the 20 sectors, taken clockwise from the top of the board  *)
(* at a radius of the single area, the classifier returns 20, 1, 18, 4,    *)
(* 13, 6, 10, 15, 2, 17, 3, 19, 7, 16, 8, 11, 14, 9, 12, 5 in this order.  *)
(* The sectors are those of the classifier: the k-th one spans 18(k-1) to  *)
(* 18k degrees clockwise from straight up, its midline lies at 18k - 9.    *)
(***************************************************************************)
DocumentedOrder ==
    << 20, 1, 18, 4, 13, 6, 10, 15, 2, 17, 3, 19, 7, 16, 8, 11, 14, 9, 12, 5 >>

\* 1000 * (sin, -cos) of 18k - 9 degrees: the midline directions on the
\* canvas, x to the right and y down
MidlineDirection ==
    << <<156, -988>>, <<454, -891>>, <<707, -707>>, <<891, -454>>, <<988, -156>>,
       <<988, 156>>, <<891, 454>>, <<707, 707>>, <<454, 891>>, <<156, 988>>,
       <<-156, 988>>, <<-454, 891>>, <<-707, 707>>, <<-891, 454>>, <<-988, 156>>,
       <<-988, -156>>, <<-891, -454>>, <<-707, -707>>, <<-454, -891>>, <<-156, -988>> >>

\* the impact lies within one degree of the k-th midline (tan 1 degree is
\* about 1 / 57)
OnMidline(k) ==
    LET m == MidlineDirection[k]
        dot == ImpactDx * m[1] + ImpactDy * m[2]
        cross == ImpactDx * m[2] - ImpactDy * m[1]
    IN  dot > 0 /\ 57 * Abs(cross) <= dot

C18_SectorOrder ==
    /\ { DocumentedOrder[k] : k \in 1..20 } = 1..20
    /\ (Classified /\ SingleArea) =>
          \A k \in 1..20 : OnMidline(k) => scoreResult = Result(DocumentedOrder[k], 1)

\* an impact on the midline of the last sector, left of the top, on the
\* smaller board
C18_Witness ==
    /\ Classified
    /\ dartboardRadius = 50
    /\ SingleArea
    /\ OnMidline(20)
    /\ scoreResult = Result(5, 1)

(***************************************************************************)
(* C19: the sector boundaries carry a half-sector (9 degree) offset: each  *)
(* 18-degree sector is centred on its nominal direction, so every point of *)
(* the single area within 9 degrees either side of straight up from the    *)
(* centre scores segment 20, and the boundaries of 20 with 5 and with 1    *)
(* lie 9 degrees off the vertical.                                         *)
(***************************************************************************)
\* the slope off the vertical is below tan(9 degrees) = 0.158384...
WithinNineDegreesOfUp ==
    ImpactDy < 0 /\ Abs(ImpactDx) * TanScale < (0 - ImpactDy) * 158384

C19_TwentyCentredOnTop ==
    (Classified /\ SingleArea /\ WithinNineDegreesOfUp) => scoreResult = Result(20, 1)

(***************************************************************************)
(* C20: every (score, multiplier) pair produced by the classifier and      *)
(* every Throw stored in a player's history, from automatic detection or   *)
(* from manual entry, has score in 0..20 or in {25, 50} and multiplier in  *)
(* {1, 2, 3}, and score 0 always comes with multiplier 1.                  *)
(***************************************************************************)
ValidPair(score, multiplier) ==
    /\ score \in (0..20) \cup { 25, 50 }
    /\ multiplier \in { 1, 2, 3 }
    /\ score = 0 => multiplier = 1

Appended(k) == gameState'.players[k].throws[Len(gameState'.players[k].throws)]
HasAppended(k) ==
    /\ k <= Len(gameState'.players)
    /\ Len(gameState'.players[k].throws) = Len(players[k].throws) + 1

Miss == Result(0, 1)

C21_UncalibratedIsNotAMiss ==
    (scoreResult.set /\ ~Calibrated) => scoreResult # Miss


(***************************************************************************)
(* C22: the stored calibration (centre and radius) changes only through a  *)
(* calibration operation, the manual one or the application of an          *)
(* auto-calibration result: scoring and drawing the overlay leave it       *)
(* unchanged.                                                              *)
(***************************************************************************)
CalibrationOps == { "calibrateDartboard", "autoDetectDartboard" }

C22_OnlyCalibrationWrites ==
    [][ lastOp'.op \notin CalibrationOps
          => UNCHANGED <<dartboardCenter, dartboardRadius>> ]_vars

(***************************************************************************)
(* C23: whenever a calibration is present its radius is strictly positive, *)
(* whatever number was typed and whatever frame was auto-calibrated; the   *)
(* classifier never runs with a radius of 0 or less.                       *)
(***************************************************************************)
C23_RadiusPositive ==
    /\ dartboardCenter.set => dartboardRadius > 0
    /\ (lastOp.op = "calculateScore" /\ Calibrated) => dartboardRadius > 0

(***************************************************************************)
(* C24: auto-calibration never fails.  For every frame it returns a        *)
(* calibration, never null, and when the fit is weak (no centre scores     *)
(* above 5, or no radius above the smallest scores best) the calibration   *)
(* is the default: the centre of the frame, a third of its smaller side.   *)
(***************************************************************************)
WeakFit(frame) ==
    LET best == BestCentre(frame)
    IN  ~(best.score > 5 /\ BestRadius(frame, best.x, best.y) > minRadius(frame))

\* centre of the frame, a third of the smaller side, rounded to pixels
IsDefault(result, frame) ==
    /\ result.found
    /\ { 2 * result.centerX - frame.width, 2 * result.centerY - frame.height }
          \subseteq { 0, 1 }
    /\ Abs(3 * result.radius - Min(frame.width, frame.height)) <= 1

Uniform(frame) == frame.set /\ frame.outer = 0 /\ frame.side = 0

C25_UniformFrameGivesDefault ==
    (autoResult.asked /\ Uniform(canvas)) => IsDefault(autoResult, canvas)

\* the all-black frame: every sample has a dartboard colour, and still the
\* default was returned
C25_Witness ==
    /\ canvas = Plain(90, 70, "black")
    /\ BestCentre(canvas).score = 36
    /\ autoResult = Detected(45, 35, 23)

(***************************************************************************)
(* C26: for a calibrated detector and two consecutive frames an impact is  *)
(* reported if and only if some compared pixel inside the calibrated       *)
(* circle differs by more than 30 in the sum of its three channels,        *)
(* however few or many pixels changed.                                     *)
(***************************************************************************)
\* the call went past the calibration test
FrameProcessed == lastOp'.op \in { "impactReported", "noImpact" }

SomePixelOverThreshold(previous, current) ==
    \E p \in (0..(current.width - 1)) \X (0..(current.height - 1)) :
       /\ OnDartboard(p, dartboardCenter, dartboardRadius)
       /\ totalDiff(Pixel(previous, p[1], p[2]), Pixel(current, p[1], p[2])) > 30

C26_ImpactIffSomePixelOverThreshold ==
    [][ (FrameProcessed /\ previousFrame.set)
          => (lastOp'.op = "impactReported"
                <=> SomePixelOverThreshold(previousFrame, canvas')) ]_vars

(***************************************************************************)
(* C27: the detector holds one previous frame.  startGame clears it with   *)
(* resetFrameComparison; the first frame processed after that is only      *)
(* stored and produces no detection; every later frame is compared with    *)
(* the frame processed immediately before it and then becomes the          *)
(* previous frame itself.                                                  *)
(***************************************************************************)
C27_OnePreviousFrame ==
    [][ /\ lastOp'.op = "startGame" => previousFrame' = NoFrame
        /\ FrameProcessed =>
              /\ previousFrame' = canvas'
              /\ ~previousFrame.set =>
                    /\ lastOp'.op = "noImpact"
                    /\ UNCHANGED <<gameState, impact, scoreResult>>
              /\ previousFrame.set =>
                    /\ previousFrame = canvas
                    /\ lastOp'.op = "impactReported"
                          => FindImpact(canvas, canvas', dartboardCenter,
                                        dartboardRadius).found ]_vars

\* a game was started after frames had been processed, its first frame was
\* only stored and its second one produced a detection
C27_Witness ==
    /\ gameState.isActive
    /\ lastOp.op = "impactReported"
    /\ previousFrame = canvas
    /\ previousFrame = WithBlock(Plain(45, 45, "gray"), 18, 18, 9, "lit")


(***************************************************************************)
(* C28: in 301/501 mode the first player whose remaining score is exactly  *)
(* 0 has won: once some player's remaining score is exactly 0, a further   *)
(* throw records nothing, so that the players and their remaining scores   *)
(* stay as they are.                                                       *)
(***************************************************************************)
Finished(gs) ==
    /\ gs.gameMode \in { "301", "501" }
    /\ \E k \in 1..Len(gs.players) : getPlayerScore(gs.players[k], gs.gameMode) = 0

C28_ZeroDecidesTheGame ==
    [][ (Finished(gameState) /\ lastOp'.op = "registerThrow")
            => gameState'.players = gameState.players ]_vars


(***************************************************************************)
(* C29: during a game the turns are fair.  In every state of an active     *)
(* game there is a round number k such that every player before            *)
(* currentPlayerIndex has 3(k+1) throws, every player after it has 3k      *)
(* throws and the current player has 3k, 3k+1 or 3k+2 throws; any two      *)
(* players' throw counts then differ by at most 3.                         *)
(***************************************************************************)
ThrowCount(i) == Len(gameState.players[i + 1].throws)
PlayerIndices == 0..(Len(gameState.players) - 1)

InRound(k) ==
    \A i \in PlayerIndices :
        IF i < gameState.currentPlayerIndex THEN ThrowCount(i) = 3 * (k + 1)
        ELSE IF i > gameState.currentPlayerIndex THEN ThrowCount(i) = 3 * k
        ELSE ThrowCount(i) \in { 3 * k, 3 * k + 1, 3 * k + 2 }

C29_TurnsAreFair ==
    gameState.isActive =>
        /\ \E k \in 0..(TotalThrows(gameState) \div 3) : InRound(k)
        /\ \A i, j \in PlayerIndices : ThrowCount(i) - ThrowCount(j) <= 3

\* two players, the second round has begun: the first player throws again
\* after three throws of each
C29_Witness ==
    /\ gameState.isActive
    /\ Len(gameState.players) = 2
    /\ gameState.currentPlayerIndex = 0
    /\ ThrowCount(0) = 3
    /\ ThrowCount(1) = 3
    /\ InRound(1)


(***************************************************************************)
(* C30: the callback registered with the detection service reflects the    *)
(* latest auto-detect setting and session activity.  An initialisation     *)
(* started under older values that ends after a newer one does not         *)
(* overwrite the newer callback: when the registered callback is the one   *)
(* built from the current values, the end of an initialisation leaves the  *)
(* callback of the current values registered, so that a detected score is  *)
(* forwarded exactly when auto-detect is enabled and the game is active.   *)
(***************************************************************************)
CurrentClosure == Closure(autoDetectEnabled, gameState.isActive)

C30_StaleNeverOverwrites ==
    [][ (detectionCallback = CurrentClosure /\ lastOp'.op = "setDetectionCallback")
            => detectionCallback' = CurrentClosure' ]_vars

====
